---- MODULE Spec2Model ----
(***************************************************************************)
(* Sales / inventory reconciliation (src/app.py): the two spreadsheet      *)
(* importers, the manual sale routes and the tables they write.            *)
(*                                                                         *)
(* Conventions of the model                                                *)
(*  - a text value is a sequence of one-character strings, so that         *)
(*    str.strip(), str.replace() and float() are computed, not assumed;    *)
(*  - a number (money, or a numeric spreadsheet cell) is an integer count  *)
(*    of hundredths: 4.00 is 400; digits past the second decimal are       *)
(*    dropped;                                                             *)
(*  - a spreadsheet cell is [k, n, s]: k = "nan" (blank cell, as pandas    *)
(*    reads it), "none" (row.get of an absent column), "num" (numeric      *)
(*    cell, n hundredths) or "str" (text cell, s);                         *)
(*  - the database is the committed tables (produtos, vendas) plus, per    *)
(*    open connection, the writes of its transaction that are not yet      *)
(*    committed (engine.begin(): commit on normal exit, rollback on an     *)
(*    exception); ids come from a sequence that a rollback does not rewind.*)
(*                                                                         *)
(* Specifications                                                          *)
(*  - Spec:     one importer invocation on a spreadsheet of varied rows;   *)
(*  - SpecQtd:  one template invocation on rows of varied quantities;      *)
(*  - SpecSeq:  imports, manual sales, sale edits and deletions over time; *)
(*  - SpecCat:  the same with the catalog routes, on either engine;        *)
(*  - SpecConc: two importer invocations at the same time;                 *)
(*  - SpecData: one call of parse_data_venda.                              *)
(***************************************************************************)
EXTENDS Integers, Sequences, FiniteSets, TLC

(***************************************************************************)
(* Bounds of the model                                                     *)
(***************************************************************************)
MaxRows == 2          \* rows of one spreadsheet
MaxVendas == 2        \* ids the vendas sequence hands out in SpecSeq
MaxImportacoes == 2   \* importer invocations in SpecSeq
MaxRelogio == 2       \* clock ticks in SpecSeq
TicksPorSegundo == 2  \* clock ticks in one second

(***************************************************************************)
(* Text and spreadsheet cells                                              *)
(***************************************************************************)
Vazio == <<>>
CelNaN == [k |-> "nan", n |-> 0, s |-> Vazio]
CelNone == [k |-> "none", n |-> 0, s |-> Vazio]
CelNum(v) == [k |-> "num", n |-> v, s |-> Vazio]
CelTxt(t) == [k |-> "str", n |-> 0, s |-> t]

Digitos == <<"0", "1", "2", "3", "4", "5", "6", "7", "8", "9">>
EhDigito(c) == \E i \in 1..10 : Digitos[i] = c
ValorDigito(c) == (CHOOSE i \in 1..10 : Digitos[i] = c) - 1

RECURSIVE LStrip(_)
LStrip(t) == IF t # Vazio /\ Head(t) = " " THEN LStrip(Tail(t)) ELSE t

RECURSIVE RStrip(_)
RStrip(t) ==
    IF t # Vazio /\ t[Len(t)] = " " THEN RStrip(SubSeq(t, 1, Len(t) - 1)) ELSE t

\* str.strip()
Strip(t) == RStrip(LStrip(t))

\* str.replace(c, "") for a one-character c
RECURSIVE SemChar(_, _)
SemChar(t, c) ==
    IF t = Vazio THEN Vazio
    ELSE IF Head(t) = c THEN SemChar(Tail(t), c)
    ELSE <<Head(t)>> \o SemChar(Tail(t), c)

\* str.replace(a, b) for one-character a and b
RECURSIVE TrocaChar(_, _, _)
TrocaChar(t, a, b) ==
    IF t = Vazio THEN Vazio
    ELSE <<IF Head(t) = a THEN b ELSE Head(t)>> \o TrocaChar(Tail(t), a, b)

\* str.replace("R$", "")
RECURSIVE SemCifrao(_)
SemCifrao(t) ==
    IF Len(t) < 2 THEN t
    ELSE IF t[1] = "R" /\ t[2] = "$" THEN SemCifrao(SubSeq(t, 3, Len(t)))
    ELSE <<Head(t)>> \o SemCifrao(Tail(t))

TodosDigitos(t) == t # Vazio /\ \A i \in 1..Len(t) : EhDigito(t[i])

RECURSIVE ValorInteiro(_)
ValorInteiro(t) ==
    IF t = Vazio THEN 0
    ELSE 10 * ValorInteiro(SubSeq(t, 1, Len(t) - 1)) + ValorDigito(t[Len(t)])

\* the first two decimals of a run of digits, as hundredths
Centesimos(t) ==
    (IF Len(t) >= 1 THEN 10 * ValorDigito(t[1]) ELSE 0)
    + (IF Len(t) >= 2 THEN ValorDigito(t[2]) ELSE 0)

PosPonto(t) == IF \E i \in 1..Len(t) : t[i] = "."
               THEN CHOOSE i \in 1..Len(t) : t[i] = "." /\ \A j \in 1..(i - 1) : t[j] # "."
               ELSE 0

\* An unsigned decimal literal: digits, digits "." [digits] or "." digits.
DecimalSemSinal(t) ==
    LET p == PosPonto(t)
        int == IF p = 0 THEN t ELSE SubSeq(t, 1, p - 1)
        frac == IF p = 0 THEN Vazio ELSE SubSeq(t, p + 1, Len(t))
        ok == /\ (int = Vazio \/ TodosDigitos(int))
              /\ (frac = Vazio \/ TodosDigitos(frac))
              /\ (int # Vazio \/ frac # Vazio)
    IN  [ok |-> ok, v |-> IF ok THEN 100 * ValorInteiro(int) + Centesimos(frac) ELSE 0]

\* Python float(str): surrounding blanks, an optional sign, a decimal literal
\* (exponents, "inf" and "nan" are outside the alphabet of the model).
\* [ok |-> FALSE] stands for ValueError.
FloatDeTexto(t) ==
    LET u == Strip(t)
        neg == u # Vazio /\ Head(u) = "-"
        body == IF u # Vazio /\ Head(u) \in {"-", "+"} THEN Tail(u) ELSE u
        d == DecimalSemSinal(body)
    IN  [ok |-> d.ok, v |-> IF neg THEN 0 - d.v ELSE d.v]

\* Python int(str): surrounding blanks, an optional sign, digits only.
IntDeTexto(t) ==
    LET u == Strip(t)
        neg == u # Vazio /\ Head(u) = "-"
        body == IF u # Vazio /\ Head(u) \in {"-", "+"} THEN Tail(u) ELSE u
    IN  [ok |-> TodosDigitos(body),
         v |-> IF TodosDigitos(body)
               THEN (IF neg THEN 0 - ValorInteiro(body) ELSE ValorInteiro(body))
               ELSE 0]

\* Python int(float): truncation toward zero (n is in hundredths)
Truncar(n) == IF n >= 0 THEN n \div 100 ELSE 0 - ((0 - n) \div 100)

\* str(row.get(col) or "").strip(): a blank cell is the float NaN, which is
\* truthy, so it becomes the text "nan"; None, "" and 0 become "".
\* (numeric cells other than 0 are not in the alphabet of the text columns)
TextoDaCelula(c) ==
    IF c.k = "nan" THEN <<"n", "a", "n">>
    ELSE IF c.k = "str" THEN Strip(c.s)
    ELSE Vazio

\* Variant of QuantidadeDaCelula: a text that is no number counts as one unit
QuantidadeDaCelula_ilegivel_vale_um(c) ==
    IF c.k = "nan" THEN 0
    ELSE IF c.k = "num" THEN Truncar(c.n)
    ELSE IF c.k = "str" THEN (IF IntDeTexto(c.s).ok THEN IntDeTexto(c.s).v ELSE 1)
    ELSE 0

\* int(x) if x == x else 0, any exception giving 0 (app.py 174-177, 270-273)
QuantidadeDaCelula(c) ==
    IF c.k = "nan" THEN 0
    ELSE IF c.k = "num" THEN Truncar(c.n)
    ELSE IF c.k = "str" THEN IntDeTexto(c.s).v
    ELSE 0

\* float(x) if x == x else 0.0, any exception giving 0.0 (app.py 180-183)
ReceitaDaCelulaML(c) ==
    IF c.k = "nan" THEN 0
    ELSE IF c.k = "num" THEN c.n
    ELSE IF c.k = "str" THEN FloatDeTexto(c.s).v
    ELSE 0

\* parse_brl, 237-239: drop "R$" and blanks, drop the thousands dots, turn
\* the decimal comma into a dot (the no-break space is outside the alphabet)
NormalizarBRL(t) ==
    TrocaChar(SemChar(SemChar(SemCifrao(t), " "), "."), ",", ".")

\* parse_brl (app.py 222-243)
parse_brl(c) ==
    IF c.k = "none" THEN 0
    ELSE IF c.k = "nan" THEN 0
    ELSE IF c.k = "num" THEN c.n
    ELSE IF Strip(c.s) = Vazio THEN 0
    ELSE FloatDeTexto(NormalizarBRL(Strip(c.s))).v


(***************************************************************************)
(* Optional column values (SQL NULL / Python None): {} or {x}              *)
(***************************************************************************)
Nulo == {}
Algum(x) == {x}

(***************************************************************************)
(* Dates                                                                   *)
(***************************************************************************)
\* str.split(): the maximal runs of non-blank characters
RECURSIVE Split(_)
Split(t) ==
    LET u == LStrip(t)
        fim == IF \E i \in 1..Len(u) : u[i] = " "
               THEN (CHOOSE i \in 1..Len(u) : u[i] = " " /\ \A j \in 1..(i - 1) : u[j] # " ") - 1
               ELSE Len(u)
    IN  IF u = Vazio THEN <<>>
        ELSE <<SubSeq(u, 1, fim)>> \o Split(SubSeq(u, fim + 1, Len(u)))

\* str.split(c): the fields between the occurrences of the character c
RECURSIVE SplitEm(_, _)
SplitEm(t, c) ==
    IF \E i \in 1..Len(t) : t[i] = c
    THEN LET p == CHOOSE i \in 1..Len(t) : t[i] = c /\ \A j \in 1..(i - 1) : t[j] # c
         IN  <<SubSeq(t, 1, p - 1)>> \o SplitEm(SubSeq(t, p + 1, Len(t)), c)
    ELSE <<t>>

\* str.lower(), over the capitals of the model's alphabet
Maiusculas == <<"A", "D", "F", "J", "M">>
Minusculas == <<"a", "d", "f", "j", "m">>
Lower(t) ==
    [i \in 1..Len(t) |->
        IF \E k \in 1..Len(Maiusculas) : Maiusculas[k] = t[i]
        THEN Minusculas[CHOOSE k \in 1..Len(Maiusculas) : Maiusculas[k] = t[i]]
        ELSE t[i]]

\* MESES_PT (97-102); the key with a cedilla is outside the alphabet
MESES_PT ==
    (<<"j", "a", "n", "e", "i", "r", "o">> :> 1) @@
    (<<"f", "e", "v", "e", "r", "e", "i", "r", "o">> :> 2) @@
    (<<"m", "a", "r", "c", "o">> :> 3) @@
    (<<"a", "b", "r", "i", "l">> :> 4) @@
    (<<"m", "a", "i", "o">> :> 5) @@
    (<<"j", "u", "n", "h", "o">> :> 6) @@
    (<<"j", "u", "l", "h", "o">> :> 7) @@
    (<<"a", "g", "o", "s", "t", "o">> :> 8) @@
    (<<"s", "e", "t", "e", "m", "b", "r", "o">> :> 9) @@
    (<<"o", "u", "t", "u", "b", "r", "o">> :> 10) @@
    (<<"n", "o", "v", "e", "m", "b", "r", "o">> :> 11) @@
    (<<"d", "e", "z", "e", "m", "b", "r", "o">> :> 12)

\* datetime(ano, mes, dia, hora, minuto) raises ValueError outside these ranges
EhBissexto(ano) == (ano % 4 = 0 /\ ano % 100 # 0) \/ ano % 400 = 0
DiasNoMes(ano, mes) ==
    IF mes = 2 THEN (IF EhBissexto(ano) THEN 29 ELSE 28)
    ELSE IF mes \in {4, 6, 9, 11} THEN 30 ELSE 31
DataValida(ano, mes, dia, hora, minuto) ==
    /\ ano >= 1 /\ ano <= 9999
    /\ mes >= 1 /\ mes <= 12
    /\ dia >= 1 /\ dia <= DiasNoMes(ano, mes)
    /\ hora >= 0 /\ hora <= 23
    /\ minuto >= 0 /\ minuto <= 59

\* parse_data_venda (104-118) on a str: Nulo is None, every exception of the
\* try block gives None.  Only partes[0], [2], [4] and [5] are read.
parse_data_venda(texto) ==
    IF Strip(texto) = Vazio THEN Nulo
    ELSE LET partes == Split(texto)
         IN  IF Len(partes) < 6 THEN Nulo
             ELSE LET dia == IntDeTexto(partes[1])
                      mes_nome == Lower(partes[3])
                      ano == IntDeTexto(partes[5])
                      hm == SplitEm(partes[6], ":")
                  IN  IF ~dia.ok \/ ~ano.ok \/ Len(hm) # 2 THEN Nulo
                      ELSE IF mes_nome \notin DOMAIN MESES_PT THEN Nulo
                      ELSE IF ~IntDeTexto(hm[1]).ok \/ ~IntDeTexto(hm[2]).ok THEN Nulo
                      ELSE IF ~DataValida(ano.v, MESES_PT[mes_nome], dia.v,
                                          IntDeTexto(hm[1]).v, IntDeTexto(hm[2]).v)
                           THEN Nulo
                      ELSE Algum([ano |-> ano.v, mes |-> MESES_PT[mes_nome], dia |-> dia.v,
                                  hora |-> IntDeTexto(hm[1]).v,
                                  minuto |-> IntDeTexto(hm[2]).v])

(***************************************************************************)
(* The catalog and the spreadsheets the model draws its inputs from        *)
(***************************************************************************)
NomeKit == <<"K", "i", "t">>
NomeCabo == <<"C", "a", "b", "o">>
SkuW1 == <<"W", "1">>
SkuC2 == <<"C", "2">>

ProdIds == {1, 2}

\* novo_produto (app.py 434-453): estoque_atual starts as estoque_inicial
NovoProduto(nome, sku, custo, estoque) ==
    [nome |-> nome, sku |-> sku, custo_unitario |-> custo,
     estoque_inicial |-> estoque, estoque_atual |-> estoque]

Catalogo ==
    (1 :> NovoProduto(NomeKit, SkuW1, 100, 5)) @@ (2 :> NovoProduto(NomeCabo, SkuC2, 250, 3))

\* The cells a column may hold.  A blank cell is NaN; <<" ">> is a cell of
\* blanks; "W1 " carries a trailing blank that strip() removes.
CelulasNumero == {CelNaN, CelTxt(<<"N", "1">>)}
CelulasSku == {CelNaN, CelTxt(<<" ">>), CelTxt(<<"W", "1", " ">>), CelTxt(SkuC2)}
CelulasTitulo == {CelNaN, CelTxt(<<" ">>), CelTxt(NomeKit)}
CelulasQuantidade == {CelNaN, CelTxt(<<"x">>), CelNum(250), CelNum(0 - 100)}
CelulasReceita == {CelNum(400), CelTxt(<<"R", "$", " ", "4", ",", "5", "0">>), CelTxt(<<"x">>)}
CelulasComissao == {CelNum(0), CelNum(100)}

\* One spreadsheet row, by the columns the importers read.  "comissao" is the
\* row's marketplace fee column; "numero" is absent from the template.
LinhasML ==
    [numero : CelulasNumero, sku : CelulasSku, titulo : CelulasTitulo,
     quantidade : CelulasQuantidade, receita : CelulasReceita, comissao : CelulasComissao]

LinhasTemplate ==
    [numero : {CelNone}, sku : CelulasSku, titulo : CelulasTitulo,
     quantidade : CelulasQuantidade, receita : CelulasReceita, comissao : CelulasComissao]

Linhas(variante) == IF variante = "ml" THEN LinhasML ELSE LinhasTemplate

\* Column names (ASCII spellings of the headers of app.py 131 and 256)
ColNumero == "N. de venda"
colunas_obrig == {"SKU", "Titulo", "Quantidade", "Receita", "Comissao", "PrecoMedio"}
ColunasML == {ColNumero, "SKU", "Titulo do anuncio", "Data da venda", "Unidades", "Total (BRL)"}

\* What read_excel finds: whether the sheet "Vendas BR" exists, and the
\* header of the sheet that is read.
Formatos(variante) ==
    IF variante = "ml"
    THEN [aba : BOOLEAN, colunas : {ColunasML, ColunasML \ {ColNumero}}]
    ELSE [aba : {TRUE}, colunas : {colunas_obrig} \cup {colunas_obrig \ {c} : c \in colunas_obrig}]

\* Variant of FormatoAceito: PrecoMedio, which the loop never reads, not required
FormatoAceito_sem_preco_medio(variante, f) ==
    IF variante = "ml"
    THEN f.aba /\ ColNumero \in f.colunas
    ELSE (colunas_obrig \ {"PrecoMedio"}) \subseteq f.colunas

\* app.py 126-132 and 250-258: the checks made before the transaction opens
FormatoAceito(variante, f) ==
    IF variante = "ml"
    THEN f.aba /\ ColNumero \in f.colunas
    ELSE colunas_obrig \subseteq f.colunas

(***************************************************************************)
(* State                                                                   *)
(***************************************************************************)
VARIABLES
    produtos,    \* committed table produtos: id -> row
    vendas,      \* committed table vendas: a set of rows
    seq_venda,   \* the last id the vendas id sequence handed out
    relogio,     \* datetime.now(), in ticks of 1/TicksPorSegundo second
    upload,      \* the saved spreadsheet a replayed import reads (Seq of rows)
    tx,          \* per connection: the importer's frame and its open transaction
    hist,        \* history: one entry per importer invocation that has ended
    motor,       \* the engine DATABASE_URL selects: "postgresql" or "sqlite"
    seq_produto, \* the last id the produtos id sequence handed out
    chamada      \* a call of parse_data_venda: <<>> or <<[texto, retorno]>>

vars == <<produtos, vendas, seq_venda, relogio, upload, tx, hist, motor, seq_produto, chamada>>

\* datetime.now().isoformat(timespec="seconds"): the sub-second part is cut
lote_id_de(agora) == agora \div TicksPorSegundo

SemDecremento == [p \in ProdIds |-> 0]

\* A connection with no importer running on it
Livre ==
    [pc |-> "livre", variante |-> "-", lote_id |-> 0, lidas |-> 0,
     vendas_importadas |-> 0, vendas_sem_sku |-> 0, vendas_sem_produto |-> 0,
     ins |-> {}, dec |-> SemDecremento, loc |-> <<>>, resultado |-> "-",
     \* history, read by the properties only
     formato |-> <<>>, linha |-> <<>>, desfecho |-> "-", alvo |-> {}, antes |-> <<>>,
     filtradas |-> 0, criadas |-> {}, falha_em |-> "-"]

(***************************************************************************)
(* Catalog lookups (app.py 148-158, 284-292)                               *)
(***************************************************************************)
BuscarPorSku(sku) == {p \in DOMAIN produtos : produtos[p].sku = sku}
BuscarPorNome(nome) == {p \in DOMAIN produtos : produtos[p].nome = nome}

\* importar_vendas_ml, 147-158: by SKU when the SKU text is not empty,
\* otherwise by title when the title text is not empty
ResolverML(sku, titulo) ==
    IF sku # Vazio THEN BuscarPorSku(sku)
    ELSE IF titulo # Vazio THEN BuscarPorNome(titulo)
    ELSE {}

\* importar_vendas_template, 282-292: by SKU, then by title when that found nothing
ResolverTemplate(sku, titulo) ==
    LET porSku == IF sku # Vazio THEN BuscarPorSku(sku) ELSE {}
    IN  IF porSku = {} /\ titulo # Vazio THEN BuscarPorNome(titulo) ELSE porSku

Resolver(variante, sku, titulo) ==
    IF variante = "ml" THEN ResolverML(sku, titulo) ELSE ResolverTemplate(sku, titulo)

\* Variant of PassaFiltro: the template keeps a row of quantity zero
PassaFiltro_aceita_zero(variante, row) ==
    IF variante = "ml"
    THEN row.numero.k \notin {"nan", "none"}
    ELSE QuantidadeDaCelula(row.quantidade) >= 0

\* Variant of PassaFiltro: the marketplace rows are not filtered
PassaFiltro_sem_filtro_ml(variante, row) ==
    variante = "ml" \/ QuantidadeDaCelula(row.quantidade) > 0

\* df[df["N. de venda"].notna()] (134) and "if quantidade <= 0: continue" (275)
PassaFiltro(variante, row) ==
    IF variante = "ml"
    THEN row.numero.k \notin {"nan", "none"}
    ELSE QuantidadeDaCelula(row.quantidade) > 0

\* Variant of Classificar: a title is enough to count as an identifying key
Classificar_titulo_conta(variante, row) ==
    LET sku == TextoDaCelula(row.sku)
        titulo == TextoDaCelula(row.titulo)
        achados == Resolver(variante, sku, titulo)
    IN  IF sku = Vazio /\ titulo = Vazio /\ achados = {} THEN "sem_sku"
        ELSE IF achados = {} THEN "sem_produto"
        ELSE "importar"

\* 160-166 and 294-300: the outcome for a row that passed the filter
Classificar(variante, row) ==
    LET sku == TextoDaCelula(row.sku)
        achados == Resolver(variante, sku, TextoDaCelula(row.titulo))
    IN  IF sku = Vazio /\ achados = {} THEN "sem_sku"
        ELSE IF achados = {} THEN "sem_produto"
        ELSE "importar"

\* receita_total / quantidade, kept as the exact fraction <<num, den>>
Preco(receita, quantidade) == IF quantidade > 0 THEN <<receita, quantidade>> ELSE <<0, 1>>

\* 168-203: the values importar_vendas_ml inserts for a matched row
VendaML(row, pid, lote) ==
    LET custo_unitario == produtos[pid].custo_unitario
        unidades == QuantidadeDaCelula(row.quantidade)
        receita_total == ReceitaDaCelulaML(row.receita)
        custo_total == custo_unitario * unidades
    IN  [produto_id |-> pid, quantidade |-> unidades,
         preco_venda_unitario |-> Preco(receita_total, unidades),
         receita_total |-> receita_total, custo_total |-> custo_total,
         margem_contribuicao |-> receita_total - custo_total,
         origem |-> "Mercado Livre",
         numero_venda_ml |-> Algum(row.numero.s),
         lote_importacao |-> Algum(lote)]

\* 278-279, 302-328: the values importar_vendas_template inserts
VendaTemplate(row, pid, lote) ==
    LET custo_unitario == produtos[pid].custo_unitario
        quantidade == QuantidadeDaCelula(row.quantidade)
        receita_total == parse_brl(row.receita)
        comissao == parse_brl(row.comissao)
        custo_total == custo_unitario * quantidade
        margem_bruta == receita_total - custo_total
    IN  [produto_id |-> pid, quantidade |-> quantidade,
         preco_venda_unitario |-> Preco(receita_total, quantidade),
         receita_total |-> receita_total, custo_total |-> custo_total,
         margem_contribuicao |-> margem_bruta - comissao,
         origem |-> "Template",
         numero_venda_ml |-> Nulo,
         lote_importacao |-> Algum(lote)]

ValoresDaVenda(variante, row, pid, lote) ==
    IF variante = "ml" THEN VendaML(row, pid, lote) ELSE VendaTemplate(row, pid, lote)

ComId(v, id) ==
    [id |-> id, produto_id |-> v.produto_id, quantidade |-> v.quantidade,
     preco_venda_unitario |-> v.preco_venda_unitario,
     receita_total |-> v.receita_total, custo_total |-> v.custo_total,
     margem_contribuicao |-> v.margem_contribuicao, origem |-> v.origem,
     numero_venda_ml |-> v.numero_venda_ml, lote_importacao |-> v.lote_importacao]


(***************************************************************************)
(* The importers, statement by statement.  t is the connection.            *)
(***************************************************************************)
EmTransacao(t) == tx[t].pc \in {"linha", "inserir", "atualizar"}

Registro(q, arquivo) ==
    [variante |-> q.variante, lote_id |-> q.lote_id, resultado |-> q.resultado,
     arquivo |-> arquivo, criadas |-> {c.id : c \in q.criadas},
     vendas_importadas |-> q.vendas_importadas]

\* 123-140 / 246-264: take the batch id from the clock, read the sheet, check
\* its format (ValueError before anything is opened), zero the counters and
\* open the transaction.  The route has saved the upload first (649-654).
IniciarImportacao(t, variante, f, arquivo) ==
    /\ tx[t].pc = "livre"
    /\ upload' = arquivo
    /\ LET inicio == [Livre EXCEPT !.variante = variante,
                                   !.lote_id = lote_id_de(relogio),
                                   !.formato = <<f>>,
                                   !.antes = <<[produtos |-> produtos, vendas |-> vendas]>>]
       IN  IF FormatoAceito(variante, f)
           THEN /\ tx' = [tx EXCEPT ![t] = [inicio EXCEPT !.pc = "linha"]]
                /\ hist' = hist
           ELSE LET q == [inicio EXCEPT !.pc = "fim", !.resultado = "ValueError"]
                IN  /\ tx' = [tx EXCEPT ![t] = q]
                    /\ hist' = Append(hist, Registro(q, arquivo))
    /\ UNCHANGED <<chamada, motor, seq_produto, produtos, vendas, seq_venda, relogio>>

\* One turn of "for _, row in df.iterrows()" up to the insert: the filter,
\* the lookup, the classification and the computed values.
LerLinha(t, row) ==
    /\ tx[t].pc = "linha"
    /\ LET sku == TextoDaCelula(row.sku)
           titulo == TextoDaCelula(row.titulo)
           classe == Classificar(tx[t].variante, row)
           q == [tx[t] EXCEPT !.lidas = @ + 1, !.linha = <<row>>, !.desfecho = "filtrada",
                              !.alvo = {}]
           r == [q EXCEPT !.filtradas = @ + 1, !.desfecho = classe]
       IN  IF ~PassaFiltro(q.variante, row)
           THEN tx' = [tx EXCEPT ![t] = q]
           ELSE IF classe = "sem_sku"
           THEN tx' = [tx EXCEPT ![t] = [r EXCEPT !.vendas_sem_sku = @ + 1]]
           ELSE IF classe = "sem_produto"
           THEN tx' = [tx EXCEPT ![t] = [r EXCEPT !.vendas_sem_produto = @ + 1]]
           ELSE \E pid \in Resolver(q.variante, sku, titulo) :
                    tx' = [tx EXCEPT ![t] =
                              [r EXCEPT !.pc = "inserir",
                                        !.alvo = {pid},
                                        !.loc = <<[venda |-> ValoresDaVenda(q.variante, row, pid, q.lote_id),
                                                   comissao |-> parse_brl(row.comissao)]>>]]
    /\ UNCHANGED <<chamada, motor, seq_produto, produtos, vendas, seq_venda, relogio, upload, hist>>

\* Variant of InserirPendente: a row equal to an earlier one inserts nothing
InserirPendente_sem_repetidas(ins, v, id) ==
    IF \E w \in ins : ComId(w, id) = ComId(v, id) THEN ins ELSE ins \cup {ComId(v, id)}

\* conn.execute(insert(vendas)...) (190-203, 315-328): a pending row with the
\* next id of the sequence
InserirPendente(ins, v, id) == ins \cup {ComId(v, id)}

Inserir(t) ==
    /\ tx[t].pc = "inserir"
    /\ seq_venda' = seq_venda + 1
    /\ LET l == tx[t].loc[1]
       IN  tx' = [tx EXCEPT ![t] =
                     [@ EXCEPT !.ins = InserirPendente(@, l.venda, seq_venda'),
                               !.criadas = @ \cup {[id |-> seq_venda', comissao |-> l.comissao]},
                               !.pc = "atualizar"]]
    /\ UNCHANGED <<chamada, motor, seq_produto, produtos, vendas, relogio, upload, hist>>

\* Variant of DecrementarPendente: the UPDATE has no WHERE clause
DecrementarPendente_sem_where(dec, pid, unidades) ==
    [p \in DOMAIN dec |-> dec[p] + unidades]

\* Variant of DecrementarPendente: a later decrement replaces the earlier one
DecrementarPendente_sobrescreve(dec, pid, unidades) ==
    IF pid \in DOMAIN produtos THEN [dec EXCEPT ![pid] = unidades] ELSE dec

\* conn.execute(update(produtos)... estoque_atual - unidades) (205-209, 330-334)
DecrementarPendente(dec, pid, unidades) ==
    IF pid \in DOMAIN produtos THEN [dec EXCEPT ![pid] = @ + unidades] ELSE dec

Atualizar(t) ==
    /\ tx[t].pc = "atualizar"
    /\ LET v == tx[t].loc[1].venda
       IN  tx' = [tx EXCEPT ![t] =
                     [@ EXCEPT !.dec = DecrementarPendente(@, v.produto_id, v.quantidade),
                               !.vendas_importadas = @ + 1,
                               !.loc = <<>>,
                               !.pc = "linha"]]
    /\ UNCHANGED <<chamada, motor, seq_produto, produtos, vendas, seq_venda, relogio, upload, hist>>

\* Variant of TabelasAposCommit: the stock written is computed from the value
\* the invocation saw when it started, not from the row as it is
TabelasAposCommit_valor_lido(q) ==
    [vendas |-> vendas \cup q.ins,
     produtos |-> [p \in DOMAIN produtos |->
                      IF q.dec[p] = 0 THEN produtos[p]
                      ELSE [produtos[p] EXCEPT !.estoque_atual =
                               q.antes[1].produtos[p].estoque_atual - q.dec[p]]]]

\* What a transaction's end leaves in the committed tables
TabelasAposCommit(q) ==
    [vendas |-> vendas \cup q.ins,
     produtos |-> [p \in DOMAIN produtos |->
                      [produtos[p] EXCEPT !.estoque_atual = @ - q.dec[p]]]]

\* Variant of TabelasAposRollback: the pending writes survive the failure
TabelasAposRollback_parcial(q) == TabelasAposCommit(q)

TabelasAposRollback(q) == [vendas |-> vendas, produtos |-> produtos]

\* The loop ends, "with engine.begin()" commits, the summary is returned
\* (211-219, 336-343)
Commit(t) ==
    /\ tx[t].pc = "linha"
    /\ LET q == [tx[t] EXCEPT !.pc = "fim", !.resultado = "resumo",
                              !.ins = {}, !.dec = SemDecremento]
           d == TabelasAposCommit(tx[t])
       IN  /\ vendas' = d.vendas
           /\ produtos' = d.produtos
           /\ tx' = [tx EXCEPT ![t] = q]
           /\ hist' = Append(hist, Registro(q, upload))
    /\ UNCHANGED <<chamada, motor, seq_produto, seq_venda, relogio, upload>>

\* A statement of the transaction (a select, the insert, the update, the
\* commit) raises: "with engine.begin()" rolls back and the exception leaves
\* the importer.
Falha(t) ==
    /\ EmTransacao(t)
    /\ LET q == [tx[t] EXCEPT !.pc = "fim", !.resultado = "erro_persistencia",
                              !.falha_em = tx[t].pc,
                              !.ins = {}, !.dec = SemDecremento, !.loc = <<>>]
           d == TabelasAposRollback(tx[t])
       IN  /\ vendas' = d.vendas
           /\ produtos' = d.produtos
           /\ tx' = [tx EXCEPT ![t] = q]
           /\ hist' = Append(hist, Registro(q, upload))
    /\ UNCHANGED <<chamada, motor, seq_produto, seq_venda, relogio, upload>>

(***************************************************************************)
(* Spec: one invocation of an importer on a spreadsheet whose rows are     *)
(* revealed as the loop reads them, from a database holding the catalog    *)
(* and an earlier manual sale.                                             *)
(***************************************************************************)
VendaManualInicial ==
    [id |-> 1, produto_id |-> 1, quantidade |-> 1, preco_venda_unitario |-> <<300, 1>>,
     receita_total |-> 300, custo_total |-> 100, margem_contribuicao |-> 200,
     origem |-> "Manual", numero_venda_ml |-> Nulo, lote_importacao |-> Nulo]

Init ==
    /\ produtos = [Catalogo EXCEPT ![1].estoque_atual = @ - 1]
    /\ vendas = {VendaManualInicial}
    /\ seq_venda = 1
    /\ relogio = 0
    /\ upload = <<>>
    /\ tx = [t \in {1} |-> Livre]
    /\ hist = <<>>
    /\ chamada = <<>>
    /\ motor = "postgresql"
    /\ seq_produto = 2

Importar ==
    \E t \in DOMAIN tx :
        /\ hist = <<>>
        /\ \E variante \in {"ml", "template"} :
              \E f \in Formatos(variante) : IniciarImportacao(t, variante, f, <<>>)

ProximaLinha ==
    \E t \in DOMAIN tx :
        /\ tx[t].lidas < MaxRows
        /\ \E row \in Linhas(tx[t].variante) : LerLinha(t, row)

InserirVenda == \E t \in DOMAIN tx : Inserir(t)

AtualizarEstoque == \E t \in DOMAIN tx : Atualizar(t)

Concluir == \E t \in DOMAIN tx : Commit(t)

Abortar == \E t \in DOMAIN tx : Falha(t)

Next ==
    \/ Importar
    \/ ProximaLinha
    \/ InserirVenda
    \/ AtualizarEstoque
    \/ Concluir
    \/ Abortar

Spec == Init /\ [][Next]_vars


(***************************************************************************)
(* The sale routes (each one request, one transaction)                     *)
(***************************************************************************)
\* criar_venda_manual (539-578)
VendaManual(pid, quantidade, preco_unit) ==
    LET custo_unitario == IF pid \in DOMAIN produtos THEN produtos[pid].custo_unitario ELSE 0
        receita_total == quantidade * preco_unit
        custo_total == quantidade * custo_unitario
    IN  [produto_id |-> pid, quantidade |-> quantidade,
         preco_venda_unitario |-> <<preco_unit, 1>>,
         receita_total |-> receita_total, custo_total |-> custo_total,
         margem_contribuicao |-> receita_total - custo_total,
         origem |-> "Manual", numero_venda_ml |-> Nulo, lote_importacao |-> Nulo]

\* update(produtos).where(id == pid).values(estoque_atual = estoque_atual - n)
EstoqueBaixado(pid, n) ==
    [p \in DOMAIN produtos |->
        IF p = pid THEN [produtos[p] EXCEPT !.estoque_atual = @ - n] ELSE produtos[p]]

Ocioso == \A t \in DOMAIN tx : tx[t].pc = "livre"

criar_venda_manual(pid, quantidade, preco_unit) ==
    /\ Ocioso
    /\ seq_venda' = seq_venda + 1
    /\ vendas' = vendas \cup {ComId(VendaManual(pid, quantidade, preco_unit), seq_venda')}
    /\ produtos' = EstoqueBaixado(pid, quantidade)
    /\ UNCHANGED <<chamada, motor, seq_produto, relogio, upload, tx, hist>>

\* editar_venda, POST (580-602): quantidade, preco_venda_unitario,
\* receita_total and margem_contribuicao of the row are rewritten
VendaEditada(v, quantidade, preco, custo_total) ==
    [v EXCEPT !.quantidade = quantidade,
              !.preco_venda_unitario = <<preco, 1>>,
              !.receita_total = quantidade * preco,
              !.margem_contribuicao = quantidade * preco - custo_total]

editar_venda(venda_id, quantidade, preco, custo_total) ==
    /\ Ocioso
    /\ vendas' = {IF v.id = venda_id THEN VendaEditada(v, quantidade, preco, custo_total) ELSE v :
                    v \in vendas}
    /\ UNCHANGED <<chamada, motor, seq_produto, produtos, seq_venda, relogio, upload, tx, hist>>

\* excluir_venda (624-629)
excluir_venda(venda_id) ==
    /\ Ocioso
    /\ vendas' = {v \in vendas : v.id # venda_id}
    /\ UNCHANGED <<chamada, motor, seq_produto, produtos, seq_venda, relogio, upload, tx, hist>>

\* excluir_lote_vendas (631-636)
excluir_lote_vendas(lote_id) ==
    /\ Ocioso
    /\ vendas' = {v \in vendas : v.lote_importacao # Algum(lote_id)}
    /\ UNCHANGED <<chamada, motor, seq_produto, produtos, seq_venda, relogio, upload, tx, hist>>

(***************************************************************************)
(* SpecSeq: the application over time.  Requests are served one at a time  *)
(* (spec section 5); an import reads a saved spreadsheet of plain rows,    *)
(* the clock may or may not advance between requests.                      *)
(***************************************************************************)
LinhasSimples ==
    [numero : {CelTxt(<<"N", "1">>)}, sku : {CelTxt(<<"W", "1", " ">>), CelTxt(SkuC2)},
     titulo : {CelTxt(<<" ">>)}, quantidade : {CelNum(250)},
     receita : {CelNum(400)}, comissao : {CelNum(0)}]

ArquivosSimples == UNION {[1..n -> LinhasSimples] : n \in 1..MaxRows}

QuantidadesManuais == {1}
QuantidadesEditadas == {2}
PrecosManuais == {300}

InitSeq ==
    /\ produtos = Catalogo
    /\ vendas = {}
    /\ seq_venda = 0
    /\ relogio = 0
    /\ upload = <<>>
    /\ tx = [t \in {1} |-> Livre]
    /\ hist = <<>>
    /\ chamada = <<>>
    /\ motor = "postgresql"
    /\ seq_produto = 2

Tick ==
    /\ relogio < MaxRelogio
    /\ relogio' = relogio + 1
    /\ UNCHANGED <<chamada, motor, seq_produto, produtos, vendas, seq_venda, upload, tx, hist>>

\* importar_ml_view / importar_template (639-694): save the upload, run the importer
ImportarArquivo ==
    \E t \in DOMAIN tx :
        /\ Ocioso
        /\ Len(hist) < MaxImportacoes
        /\ \E arquivo \in ArquivosSimples :
              /\ seq_venda + Len(arquivo) <= MaxVendas
              /\ \E variante \in {"ml", "template"} :
                    \E f \in {g \in Formatos(variante) : FormatoAceito(variante, g)} :
                        IniciarImportacao(t, variante, f, arquivo)

ProximaLinhaArquivo ==
    \E t \in DOMAIN tx :
        /\ tx[t].pc = "linha"
        /\ tx[t].lidas < Len(upload)
        /\ LerLinha(t, upload[tx[t].lidas + 1])

\* The importer has returned or raised: the request ends, its frame is gone
Retornar ==
    \E t \in DOMAIN tx :
        /\ tx[t].pc = "fim"
        /\ tx' = [tx EXCEPT ![t] = Livre]
        /\ UNCHANGED <<chamada, motor, seq_produto, produtos, vendas, seq_venda, relogio, upload, hist>>

ConcluirArquivo ==
    \E t \in DOMAIN tx :
        /\ tx[t].lidas = Len(upload)
        /\ Commit(t)

VendaManualNova ==
    /\ seq_venda < MaxVendas
    /\ \E pid \in DOMAIN produtos : \E q \in QuantidadesManuais : \E p \in PrecosManuais :
          criar_venda_manual(pid, q, p)

EditarVenda ==
    \E v \in vendas : \E q \in QuantidadesEditadas : \E p \in PrecosManuais :
        editar_venda(v.id, q, p, v.custo_total)

ExcluirVenda == \E v \in vendas : excluir_venda(v.id)

ExcluirLote == \E v \in vendas : \E l \in v.lote_importacao : excluir_lote_vendas(l)

NextSeq ==
    \/ Tick
    \/ ImportarArquivo
    \/ ProximaLinhaArquivo
    \/ InserirVenda
    \/ AtualizarEstoque
    \/ ConcluirArquivo
    \/ Abortar
    \/ Retornar
    \/ VendaManualNova
    \/ EditarVenda
    \/ ExcluirVenda
    \/ ExcluirLote

SpecSeq == InitSeq /\ [][NextSeq]_vars

(***************************************************************************)
(* SpecQtd: one invocation of the template importer on rows that differ in *)
(* their Quantidade cell: blank, text, zero, negative, positive.           *)
(***************************************************************************)
CelulasQuantidadeTemplate ==
    {CelNaN, CelTxt(<<"x">>), CelTxt(<<"0">>), CelNum(0), CelNum(0 - 100), CelNum(250)}

LinhasQuantidade ==
    [numero : {CelNone}, sku : {CelNaN, CelTxt(SkuC2)},
     titulo : {CelTxt(<<" ">>), CelTxt(NomeKit)},
     quantidade : CelulasQuantidadeTemplate, receita : {CelNum(400)},
     comissao : {CelNum(100)}]

ImportarTemplate ==
    \E t \in DOMAIN tx :
        /\ hist = <<>>
        /\ \E f \in {g \in Formatos("template") : FormatoAceito("template", g)} :
              IniciarImportacao(t, "template", f, <<>>)

ProximaLinhaQuantidade ==
    \E t \in DOMAIN tx :
        /\ tx[t].variante = "template"
        /\ tx[t].lidas < MaxRows
        /\ \E row \in LinhasQuantidade : LerLinha(t, row)

NextQtd ==
    \/ ImportarTemplate
    \/ ProximaLinhaQuantidade
    \/ InserirVenda
    \/ AtualizarEstoque
    \/ Concluir
    \/ Abortar

SpecQtd == Init /\ [][NextQtd]_vars

(***************************************************************************)
(* SpecData: one call of parse_data_venda on a text of the "Data da venda" *)
(* column.                                                                 *)
(***************************************************************************)
Dois(n) == <<Digitos[(n \div 10) + 1], Digitos[(n % 10) + 1]>>
Quatro(n) == Dois(n \div 100) \o Dois(n % 100)

DiasDeTeste ==
    {[ano |-> a, mes |-> d[1], dia |-> d[2]] :
        a \in {2023, 2024}, d \in {<<1, 1>>, <<2, 28>>, <<3, 5>>, <<4, 30>>, <<12, 31>>}}
    \cup {[ano |-> 2024, mes |-> 2, dia |-> 29]}

HorasDeTeste == {[hora |-> 14, minuto |-> 30], [hora |-> 9, minuto |-> 5]}

NomeDoMes(mes) == CHOOSE n \in DOMAIN MESES_PT : MESES_PT[n] = mes

Capitalizado(t) ==
    [i \in 1..Len(t) |->
        IF i = 1 /\ \E k \in 1..Len(Minusculas) : Minusculas[k] = t[i]
        THEN Maiusculas[CHOOSE k \in 1..Len(Minusculas) : Minusculas[k] = t[i]]
        ELSE t[i]]

\* "<day> de <month> de <year> HH:MM"
TextoLongo(d, h, nome) ==
    Dois(d.dia) \o <<" ", "d", "e", " ">> \o nome \o <<" ", "d", "e", " ">>
        \o Quatro(d.ano) \o <<" ">> \o Dois(h.hora) \o <<":">> \o Dois(h.minuto)

\* "DD/MM/YYYY" and "YYYY-MM-DD"
TextoBarra(d) == Dois(d.dia) \o <<"/">> \o Dois(d.mes) \o <<"/">> \o Quatro(d.ano)
TextoIso(d) == Quatro(d.ano) \o <<"-">> \o Dois(d.mes) \o <<"-">> \o Dois(d.dia)

Momento(d, h) ==
    [ano |-> d.ano, mes |-> d.mes, dia |-> d.dia, hora |-> h.hora, minuto |-> h.minuto]
MeiaNoite == [hora |-> 0, minuto |-> 0]

OutrosTextos ==
    {<<"g", "a", "r", "b", "a", "g", "e">>,
     <<"x">>,
     <<"0", "5", " ", "d", "e", " ", "m", "a", "r", "c", "o">>,
     <<"0", "5", " ", "d", "e", " ", "m", "a", "r", "c", "o", " ", "d", "e", " ", "2", "0", "2", "4">>,
     <<"0", "5", " ", "d", "e", " ", "m", "a", "r", "c", "o", " ", "d", "e", " ", "2", "0", "2", "4", " ", "1", "4", "h", "3", "0">>,
     <<"0", "5", " ", "d", "e", " ", "m", "a", "r", "c", "o", " ", "d", "e", " ", "2", "0", "2", "4", " ", "1", "4", ":", "3", "0", ":", "0", "0">>,
     <<"3", "1", " ", "d", "e", " ", "a", "b", "r", "i", "l", " ", "d", "e", " ", "2", "0", "2", "4", " ", "1", "4", ":", "3", "0">>,
     <<"0", "5", " ", "d", "e", " ", "m", "a", "r", "c", "o", " ", "d", "e", " ", "2", "0", "2", "4", " ", "2", "4", ":", "0", "0">>,
     <<"0", "5", " ", "d", "e", " ", "m", "a", "r", " ", "d", "e", " ", "2", "0", "2", "4", " ", "1", "4", ":", "3", "0">>,
     <<"0", "5", "/", "0", "3", "/", "2", "0", "2", "4", " ", "1", "4", ":", "3", "0">>,
     <<"0", "5", " ", "x", "x", " ", "m", "a", "r", "c", "o", " ", "y", "y", " ", "2", "0", "2", "4", " ", "1", "4", ":", "3", "0">>,
     <<"0", "5", " ", "d", "e", " ", "m", "a", "r", "c", "o", " ", "d", "e", " ", "2", "0", "2", "4", " ", "1", "4", ":", "3", "0", " ", "h">>}

\* The texts of the call, each with the form it has and the moment it names
Entradas ==
    {[texto |-> TextoLongo(d, h, IF cap THEN Capitalizado(NomeDoMes(d.mes))
                                          ELSE NomeDoMes(d.mes)),
      forma |-> "longa", data |-> Algum(Momento(d, h))] :
        d \in DiasDeTeste, h \in HorasDeTeste, cap \in BOOLEAN}
    \cup {[texto |-> TextoBarra(d), forma |-> "barra", data |-> Algum(Momento(d, MeiaNoite))] :
            d \in DiasDeTeste}
    \cup {[texto |-> TextoIso(d), forma |-> "iso", data |-> Algum(Momento(d, MeiaNoite))] :
            d \in DiasDeTeste}
    \cup {[texto |-> t, forma |-> "outra", data |-> Nulo] : t \in OutrosTextos}

InitData ==
    /\ produtos = Catalogo
    /\ vendas = {}
    /\ seq_venda = 0
    /\ relogio = 0
    /\ upload = <<>>
    /\ tx = [t \in {1} |-> Livre]
    /\ hist = <<>>
    /\ motor = "postgresql"
    /\ seq_produto = 2
    /\ chamada \in {<<[entrada |-> e, retorno |-> <<>>]>> : e \in Entradas}

ChamarParseDataVenda ==
    /\ chamada # <<>>
    /\ chamada[1].retorno = <<>>
    /\ chamada' = <<[chamada[1] EXCEPT !.retorno = <<parse_data_venda(chamada[1].entrada.texto)>>]>>
    /\ UNCHANGED <<produtos, vendas, seq_venda, relogio, upload, tx, hist, motor, seq_produto>>

NextData == ChamarParseDataVenda

SpecData == InitData /\ [][NextData]_vars

(***************************************************************************)
(* SpecCat: the catalog routes together with the sale routes and the       *)
(* importers, on either engine, starting from a catalog of one product.    *)
(***************************************************************************)
\* DATABASE_URL (18): PostgreSQL in production, SQLite by default
Motores == {"postgresql", "sqlite"}

\* ForeignKey("produtos.id") (50): PostgreSQL checks it on every insert and
\* delete; SQLite ignores it unless PRAGMA foreign_keys is switched on, which
\* the application never does.
ImpoeChaveEstrangeira == motor = "postgresql"

Maior(S) == IF S = {} THEN 0 ELSE CHOOSE x \in S : \A y \in S : y <= x

\* Column("id", Integer, primary_key=True) (36): the next value of the serial
\* in PostgreSQL, the largest id in the table plus one in SQLite
ProximoIdProduto ==
    IF motor = "postgresql" THEN seq_produto + 1 ELSE Maior(DOMAIN produtos) + 1

\* Column("sku", String(100), unique=True) (38)
SkuEmUso(sku, exceto) == \E p \in DOMAIN produtos \ {exceto} : produtos[p].sku = sku

\* novo_produto, POST (434-455); a duplicate SKU raises IntegrityError, the
\* serial keeping the value it handed out
novo_produto(nome, sku, custo, estoque) ==
    /\ Ocioso
    /\ ProximoIdProduto \in ProdIds
    /\ seq_produto' = IF motor = "postgresql" THEN seq_produto + 1 ELSE seq_produto
    /\ produtos' = IF SkuEmUso(sku, 0) THEN produtos
                   ELSE produtos @@ (ProximoIdProduto :> NovoProduto(nome, sku, custo, estoque))
    /\ UNCHANGED <<chamada, vendas, seq_venda, relogio, upload, tx, hist, motor>>

\* editar_produto, POST (459-481): estoque_inicial is not among the columns
editar_produto(produto_id, nome, sku, custo, estoque_atual) ==
    /\ Ocioso
    /\ produto_id \in DOMAIN produtos
    /\ ~SkuEmUso(sku, produto_id)
    /\ produtos' = [produtos EXCEPT ![produto_id] =
                       [@ EXCEPT !.nome = nome, !.sku = sku, !.custo_unitario = custo,
                                 !.estoque_atual = estoque_atual]]
    /\ UNCHANGED <<chamada, vendas, seq_venda, relogio, upload, tx, hist, motor, seq_produto>>

\* excluir_produto (494-499): where the foreign key is checked, the delete of
\* a product that a sale references raises and changes nothing
excluir_produto(produto_id) ==
    /\ Ocioso
    /\ ~(ImpoeChaveEstrangeira /\ \E v \in vendas : v.produto_id = produto_id)
    /\ produtos' = [p \in DOMAIN produtos \ {produto_id} |-> produtos[p]]
    /\ UNCHANGED <<chamada, vendas, seq_venda, relogio, upload, tx, hist, motor, seq_produto>>

\* criar_venda_manual when the foreign key is checked and produto_id is no
\* product: the insert (556-569) raises, the transaction is rolled back, the
\* id sequence keeps the value it handed out
venda_manual_recusada(pid) ==
    /\ Ocioso
    /\ ImpoeChaveEstrangeira /\ pid \notin DOMAIN produtos
    /\ seq_venda' = seq_venda + 1
    /\ UNCHANGED <<chamada, produtos, vendas, relogio, upload, tx, hist, motor, seq_produto>>

InitCat ==
    /\ produtos = (1 :> Catalogo[1])
    /\ vendas = {}
    /\ seq_venda = 0
    /\ relogio = 0
    /\ upload = <<>>
    /\ tx = [t \in {1} |-> Livre]
    /\ hist = <<>>
    /\ chamada = <<>>
    /\ motor \in Motores
    /\ seq_produto = 1

NovoProdutoCat ==
    \E c \in ProdIds :
        novo_produto(Catalogo[c].nome, Catalogo[c].sku, Catalogo[c].custo_unitario,
                     Catalogo[c].estoque_inicial)

EditarProdutoCat ==
    \E p \in DOMAIN produtos :
        editar_produto(p, produtos[p].nome, produtos[p].sku, produtos[p].custo_unitario,
                       produtos[p].estoque_inicial)

ExcluirProdutoCat == \E p \in DOMAIN produtos : excluir_produto(p)

\* the form's produto_id is whatever the client posts
VendaManualCat ==
    /\ seq_venda < MaxVendas
    /\ \E pid \in ProdIds : \E q \in QuantidadesManuais : \E p \in PrecosManuais :
          \/ (pid \in DOMAIN produtos \/ ~ImpoeChaveEstrangeira) /\ criar_venda_manual(pid, q, p)
          \/ venda_manual_recusada(pid)

NextCat ==
    \/ NovoProdutoCat
    \/ EditarProdutoCat
    \/ ExcluirProdutoCat
    \/ VendaManualCat
    \/ ExcluirVenda
    \/ ImportarArquivo
    \/ ProximaLinhaArquivo
    \/ InserirVenda
    \/ AtualizarEstoque
    \/ ConcluirArquivo
    \/ Abortar
    \/ Retornar

SpecCat == InitCat /\ [][NextCat]_vars

(***************************************************************************)
(* SpecConc: two requests, each on its own connection, run an importer at  *)
(* the same time (the server handles requests in threads; engine.begin()   *)
(* gives each its own connection and transaction).                         *)
(***************************************************************************)
Conexoes == {1, 2}

\* The products whose row connection u has updated in its open transaction:
\* those of its pending inserts, the latest one excepted while its update
\* (205-209) is still to be executed.
LinhasAtualizadas(u) ==
    {v.produto_id :
        v \in {w \in tx[u].ins :
                  tx[u].pc # "atualizar" \/ w.id # Maior({x.id : x \in tx[u].ins})}}

\* An UPDATE waits while another open transaction holds the lock it needs:
\* in PostgreSQL the lock of the row, taken by that transaction's UPDATE of the
\* same product and held until it ends; in SQLite the write lock of the whole
\* database, taken by that transaction's first write.
AtualizacaoEspera(t, pid) ==
    \E u \in DOMAIN tx \ {t} :
        IF motor = "postgresql" THEN pid \in LinhasAtualizadas(u) ELSE tx[u].ins # {}

\* An INSERT into vendas waits only for SQLite's database write lock
InsercaoEspera(t) ==
    motor = "sqlite" /\ \E u \in DOMAIN tx \ {t} : tx[u].ins # {}

InitConc ==
    /\ produtos = Catalogo
    /\ vendas = {}
    /\ seq_venda = 0
    /\ relogio = 0
    /\ upload = <<>>
    /\ tx = [t \in Conexoes |-> Livre]
    /\ hist = <<>>
    /\ chamada = <<>>
    /\ motor \in Motores
    /\ seq_produto = 2

ImportarConc ==
    \E t \in DOMAIN tx : \E variante \in {"ml", "template"} :
        \E f \in {g \in Formatos(variante) : FormatoAceito(variante, g)} :
            IniciarImportacao(t, variante, f, <<>>)

ProximaLinhaConc ==
    \E t \in DOMAIN tx :
        /\ tx[t].lidas < MaxRows
        /\ \E row \in LinhasSimples : LerLinha(t, row)

InserirVendaConc ==
    \E t \in DOMAIN tx : ~InsercaoEspera(t) /\ Inserir(t)

AtualizarEstoqueConc ==
    \E t \in DOMAIN tx :
        /\ tx[t].pc = "atualizar"
        /\ ~AtualizacaoEspera(t, tx[t].loc[1].venda.produto_id)
        /\ Atualizar(t)

NextConc ==
    \/ ImportarConc
    \/ ProximaLinhaConc
    \/ InserirVendaConc
    \/ AtualizarEstoqueConc
    \/ Concluir
    \/ Abortar

SpecConc == InitConc /\ [][NextConc]_vars


(***************************************************************************)
(* Properties                                                              *)
(***************************************************************************)
RECURSIVE SomaQuantidade(_)
SomaQuantidade(S) ==
    IF S = {} THEN 0
    ELSE LET v == CHOOSE x \in S : TRUE
         IN  v.quantidade + SomaQuantidade(S \ {v})

\* The committed sale records the invocation on connection t created
CriadasPor(t) == {v \in vendas : v.id \in {c.id : c \in tx[t].criadas}}
CriadasPara(t, p) == {v \in CriadasPor(t) : v.produto_id = p}

Sucesso(t) == tx[t].pc = "fim" /\ tx[t].resultado = "resumo"

\* C1: after every successful run of either importer, each product's
\* estoque_atual is its value before the run minus the sum of quantidade over
\* the sale records the run created for it; a product with no sale record in
\* the batch keeps its stock.
C1_EstoqueAposImportacao ==
    \A t \in DOMAIN tx :
        Sucesso(t) =>
            \A p \in DOMAIN produtos :
                produtos[p].estoque_atual =
                    tx[t].antes[1].produtos[p].estoque_atual - SomaQuantidade(CriadasPara(t, p))

\* Two records of the batch for product 1 (their quantities add up), none for
\* product 2.
C1_Witness ==
    \E t \in DOMAIN tx :
        /\ Sucesso(t)
        /\ Cardinality(CriadasPara(t, 1)) = 2
        /\ SomaQuantidade(CriadasPara(t, 1)) # 0
        /\ CriadasPara(t, 2) = {}
        /\ produtos[1].estoque_atual # tx[t].antes[1].produtos[1].estoque_atual

\* C2: an import is all-or-nothing.  In every state the committed tables
\* hold either nothing of the batch (sale records and stock as before the
\* import) or each created record together with its decrement; after a
\* persistence failure they hold nothing of it.
C2_TudoOuNada ==
    \A t \in DOMAIN tx :
        tx[t].antes # <<>> =>
            LET antes == tx[t].antes[1]
            IN  /\ vendas \ CriadasPor(t) = antes.vendas
                /\ \A p \in DOMAIN produtos :
                      produtos[p].estoque_atual =
                          antes.produtos[p].estoque_atual - SomaQuantidade(CriadasPara(t, p))
                /\ CriadasPor(t) # {} => Cardinality(CriadasPor(t)) = Cardinality(tx[t].criadas)
                /\ tx[t].resultado = "erro_persistencia" =>
                      vendas = antes.vendas /\ produtos = antes.produtos

\* The second row's update raises after the first row was written and the
\* second row's sale was inserted.
C2_Witness ==
    \E t \in DOMAIN tx :
        /\ tx[t].resultado = "erro_persistencia"
        /\ tx[t].falha_em = "atualizar"
        /\ tx[t].vendas_importadas = 1
        /\ Cardinality(tx[t].criadas) = 2


\* C3: with imports, manual sales, sale edits and sale or batch deletions
\* only, every product has estoque_atual = estoque_inicial minus the sum of
\* quantidade of the sale records that reference it.
C3_EstoqueReconciliado ==
    \A p \in DOMAIN produtos :
        produtos[p].estoque_atual =
            produtos[p].estoque_inicial - SomaQuantidade({v \in vendas : v.produto_id = p})

\* C4: every sale record an importer created, pending or committed, has
\* margem_contribuicao = receita_total - custo_total - the row's commission.
C4_MargemDescontaComissao ==
    \A t \in DOMAIN tx :
        \A c \in tx[t].criadas :
            \A v \in vendas \cup tx[t].ins :
                v.id = c.id =>
                    v.margem_contribuicao = v.receita_total - v.custo_total - c.comissao

\* C5: for a row past the filter, in both variants: when the SKU finds a
\* product the row is imported against it; when the SKU is blank or finds
\* nothing and the title equals a product's name, the row is imported against
\* that product.
C5_SkuDepoisTitulo ==
    \A t \in DOMAIN tx :
        (tx[t].linha # <<>> /\ tx[t].desfecho # "filtrada") =>
            LET row == tx[t].linha[1]
                sku == TextoDaCelula(row.sku)
                titulo == TextoDaCelula(row.titulo)
                porSku == {p \in DOMAIN produtos : sku # Vazio /\ produtos[p].sku = sku}
                porNome == {p \in DOMAIN produtos : titulo # Vazio /\ produtos[p].nome = titulo}
            IN  /\ porSku # {} =>
                      tx[t].desfecho = "importar" /\ tx[t].alvo \subseteq porSku
                /\ (porSku = {} /\ porNome # {}) =>
                      tx[t].desfecho = "importar" /\ tx[t].alvo \subseteq porNome


\* A step in which connection t's loop takes a row that passes the filter
ProcessouLinha(t) ==
    /\ tx[t].pc = "linha"
    /\ tx'[t].lidas = tx[t].lidas + 1
    /\ tx'[t].filtradas = tx[t].filtradas + 1

\* C6 as stated: a processed row is counted in vendas_sem_produto exactly
\* when it has a non-empty SKU or a non-empty title and no product is found.
C6_SemProdutoComSkuOuTitulo ==
    [][\A t \in DOMAIN tx :
          ProcessouLinha(t) =>
              LET row == tx'[t].linha[1]
                  sku == TextoDaCelula(row.sku)
                  titulo == TextoDaCelula(row.titulo)
                  achou == tx'[t].pc = "inserir"
              IN  (tx'[t].vendas_sem_produto = tx[t].vendas_sem_produto + 1)
                      <=> ((sku # Vazio \/ titulo # Vazio) /\ ~achou)]_vars

\* C6, amended: a processed row is counted in vendas_sem_produto exactly
\* when its SKU text is not empty and no product is found for it; a row with
\* an empty SKU for which no product is found, whatever its title, is counted
\* in vendas_sem_sku and not in vendas_sem_produto.
C6_SemProdutoExigeSku ==
    [][\A t \in DOMAIN tx :
          ProcessouLinha(t) =>
              LET row == tx'[t].linha[1]
                  sku == TextoDaCelula(row.sku)
                  achou == tx'[t].pc = "inserir"
                  maisSemProduto == tx'[t].vendas_sem_produto - tx[t].vendas_sem_produto
                  maisSemSku == tx'[t].vendas_sem_sku - tx[t].vendas_sem_sku
              IN  /\ maisSemProduto = (IF sku # Vazio /\ ~achou THEN 1 ELSE 0)
                  /\ maisSemSku = (IF sku = Vazio /\ ~achou THEN 1 ELSE 0)]_vars

\* A row with an empty SKU and a non-empty title that names no product has
\* just been counted as missing its key.
C6_Witness ==
    \E t \in DOMAIN tx :
        /\ tx[t].linha # <<>>
        /\ tx[t].pc = "linha"
        /\ TextoDaCelula(tx[t].linha[1].sku) = Vazio
        /\ TextoDaCelula(tx[t].linha[1].titulo) # Vazio
        /\ BuscarPorNome(TextoDaCelula(tx[t].linha[1].titulo)) = {}
        /\ tx[t].desfecho = "sem_sku"
        /\ tx[t].vendas_sem_sku = 1
        /\ tx[t].vendas_sem_produto = 0


\* A step in which connection t's loop takes a row
LeuLinha(t) == tx[t].pc = "linha" /\ tx'[t].lidas = tx[t].lidas + 1

QuantidadeIlegivel(c) == c.k = "str" /\ ~IntDeTexto(c.s).ok

ReceitaIlegivel(variante, c) ==
    /\ c.k = "str"
    /\ IF variante = "ml" THEN ~FloatDeTexto(c.s).ok
       ELSE ~FloatDeTexto(NormalizarBRL(Strip(c.s))).ok

\* No product of the catalog has the row's SKU or the row's title
SemProdutoNoCatalogo(row) ==
    /\ BuscarPorSku(TextoDaCelula(row.sku)) = {}
    /\ BuscarPorNome(TextoDaCelula(row.titulo)) = {}

\* C7 as stated: a row with an unparseable quantity or revenue, a missing
\* key or an unmatched product leads to no sale record and no stock change,
\* and the loop goes on to the next row.
C7_LinhaComErroNaoGrava ==
    [][\A t \in DOMAIN tx :
          LeuLinha(t) =>
              LET row == tx'[t].linha[1]
                  erro == \/ QuantidadeIlegivel(row.quantidade)
                          \/ ReceitaIlegivel(tx[t].variante, row.receita)
                          \/ SemProdutoNoCatalogo(row)
              IN  erro => /\ tx'[t].pc = "linha"
                          /\ tx'[t].ins = tx[t].ins
                          /\ tx'[t].dec = tx[t].dec]_vars

\* C7, amended: a row with a missing key or an unmatched product leads to no
\* sale record and no stock change; an unparseable quantity or revenue is read
\* as 0 and raises nothing: the template skips a row whose quantity is
\* unparseable, the marketplace importer still records a matched row with
\* quantidade 0, and either importer records a matched row whose revenue is
\* unparseable with receita_total 0; in every case the importer stays in its
\* loop, so the rows after it are processed.
C7_ErroDeLinhaNaoAborta ==
    [][\A t \in DOMAIN tx :
          LeuLinha(t) =>
              LET row == tx'[t].linha[1]
                  v == tx[t].variante
                  grava == tx'[t].pc = "inserir"
                  semContar == /\ tx'[t].vendas_sem_sku = tx[t].vendas_sem_sku
                               /\ tx'[t].vendas_sem_produto = tx[t].vendas_sem_produto
              IN  /\ tx'[t].pc \in {"linha", "inserir"}
                  /\ tx'[t].resultado = "-"
                  /\ tx'[t].ins = tx[t].ins /\ tx'[t].dec = tx[t].dec
                  /\ vendas' = vendas /\ produtos' = produtos
                  /\ SemProdutoNoCatalogo(row) => ~grava
                  /\ (QuantidadeIlegivel(row.quantidade) /\ v = "template") => (~grava /\ semContar)
                  /\ (QuantidadeIlegivel(row.quantidade) /\ grava) =>
                        /\ tx'[t].loc[1].venda.quantidade = 0
                        /\ DecrementarPendente(tx[t].dec, tx'[t].loc[1].venda.produto_id,
                                               tx'[t].loc[1].venda.quantidade) = tx[t].dec
                  /\ (ReceitaIlegivel(v, row.receita) /\ grava) =>
                        tx'[t].loc[1].venda.receita_total = 0]_vars

\* The first row found no product; the second, whose quantity cell is not a
\* number, was still processed and recorded with quantidade 0.
C7_Witness ==
    \E t \in DOMAIN tx :
        /\ tx[t].pc = "linha"
        /\ tx[t].lidas = 2
        /\ tx[t].vendas_sem_produto = 1
        /\ tx[t].vendas_importadas = 1
        /\ QuantidadeIlegivel(tx[t].linha[1].quantidade)
        /\ tx[t].desfecho = "importar"
        /\ \E w \in tx[t].ins : w.quantidade = 0
        /\ tx[t].dec = SemDecremento

\* The format contract as the claim words it
FormatoExigido(variante, f) ==
    IF variante = "ml"
    THEN f.aba /\ "N. de venda" \in f.colunas
    ELSE \A c \in {"SKU", "Titulo", "Quantidade", "Receita", "Comissao", "PrecoMedio"} :
            c \in f.colunas

\* C8: when the spreadsheet lacks the required sheet or a required column,
\* the importer ends with an error before any write: no sale record pending
\* or committed, no stock change, no row read, no summary.
C8_ErroDeFormatoAntesDeEscrever ==
    \A t \in DOMAIN tx :
        (tx[t].formato # <<>> /\ ~FormatoExigido(tx[t].variante, tx[t].formato[1])) =>
            /\ tx[t].pc = "fim"
            /\ tx[t].resultado = "ValueError"
            /\ tx[t].lidas = 0
            /\ tx[t].ins = {} /\ tx[t].criadas = {} /\ tx[t].dec = SemDecremento
            /\ vendas = tx[t].antes[1].vendas
            /\ produtos = tx[t].antes[1].produtos

\* A template without the PrecoMedio column was refused.
C8_Witness ==
    \E t \in DOMAIN tx :
        /\ tx[t].variante = "template"
        /\ tx[t].formato # <<>>
        /\ "PrecoMedio" \notin tx[t].formato[1].colunas
        /\ tx[t].resultado = "ValueError"
        /\ vendas = tx[t].antes[1].vendas

\* The pre-filter as the claim words it
PreFiltro(variante, row) ==
    IF variante = "ml" THEN row.numero # CelNaN
    ELSE QuantidadeDaCelula(row.quantidade) > 0

Contados(q) == q.vendas_importadas + q.vendas_sem_sku + q.vendas_sem_produto

\* C9: within one invocation every matched row gives exactly one sale record
\* and vendas_importadas is the number of sale records the invocation
\* created; the three counters add up to the number of rows that passed the
\* pre-filter.
C9_UmaVendaPorLinha ==
    [][\A t \in DOMAIN tx :
          /\ LeuLinha(t) =>
                /\ tx'[t].filtradas - tx[t].filtradas
                      = (IF PreFiltro(tx[t].variante, tx'[t].linha[1]) THEN 1 ELSE 0)
                /\ Contados(tx'[t]) + (IF tx'[t].pc = "inserir" THEN 1 ELSE 0)
                      = Contados(tx[t]) + (tx'[t].filtradas - tx[t].filtradas)
          /\ (tx[t].pc = "inserir" /\ tx'[t].pc = "linha") =>
                /\ tx'[t].vendas_importadas = tx[t].vendas_importadas + 1
                /\ Cardinality(tx'[t].ins) = tx'[t].vendas_importadas
          /\ (tx[t].pc = "atualizar" /\ tx'[t].pc = "linha") =>
                /\ tx'[t].vendas_importadas = tx[t].vendas_importadas + 1
                /\ Cardinality(tx'[t].ins) = tx'[t].vendas_importadas
          /\ (tx'[t].pc = "fim" /\ tx'[t].resultado = "resumo") =>
                /\ Cardinality({w \in vendas' : w.id \in {c.id : c \in tx'[t].criadas}})
                      = tx'[t].vendas_importadas
                /\ Cardinality(vendas') = Cardinality(vendas) + tx'[t].vendas_importadas
                /\ Contados(tx'[t]) = tx'[t].filtradas]_vars

\* Two rows, one filtered out before classification, one imported.
C9_Witness ==
    \E t \in DOMAIN tx :
        /\ Sucesso(t)
        /\ tx[t].lidas = 2
        /\ tx[t].filtradas = 1
        /\ tx[t].vendas_importadas = 1
        /\ Cardinality(CriadasPor(t)) = 1

\* C10: a second successful run on the same file creates its own full set of
\* sale records and has a batch identifier different from the first run's.
C10_ReexecucaoNovoLote ==
    \A i, j \in 1..Len(hist) :
        (/\ i < j
         /\ hist[i].resultado = "resumo" /\ hist[j].resultado = "resumo"
         /\ hist[i].variante = hist[j].variante
         /\ hist[i].arquivo = hist[j].arquivo) =>
            /\ hist[j].vendas_importadas = hist[i].vendas_importadas
            /\ Cardinality(hist[j].criadas) = hist[j].vendas_importadas
            /\ hist[j].criadas \cap hist[i].criadas = {}
            /\ hist[j].lote_id # hist[i].lote_id

\* C11: every sale record an importer created, pending or committed, has
\* receita_total = preco_venda_unitario * quantidade (the unit price is kept
\* as the exact fraction <<numerator, denominator>>, so no rounding is needed).
C11_ReceitaIgualPrecoVezesQuantidade ==
    \A t \in DOMAIN tx :
        \A c \in tx[t].criadas :
            \A v \in vendas \cup tx[t].ins :
                v.id = c.id =>
                    v.preco_venda_unitario[1] * v.quantidade
                        = v.receita_total * v.preco_venda_unitario[2]

\* C12: in every reachable state every sale record's produto_id is the id of
\* a product of the catalog.
C12_VendaReferenciaProduto ==
    \A v \in vendas : v.produto_id \in DOMAIN produtos

\* C13: in the marketplace import a row whose order-number cell is blank is
\* dropped before classification: the loop goes on to the next row with the
\* three counters, the pending sale records and the pending stock decrements
\* as they were, and nothing committed, whatever the row's SKU and title.
C13_NumeroEmBrancoDescartada ==
    [][\A t \in DOMAIN tx :
          (LeuLinha(t) /\ tx[t].variante = "ml" /\ tx'[t].linha[1].numero = CelNaN) =>
              /\ tx'[t].pc = "linha"
              /\ tx'[t].vendas_importadas = tx[t].vendas_importadas
              /\ tx'[t].vendas_sem_sku = tx[t].vendas_sem_sku
              /\ tx'[t].vendas_sem_produto = tx[t].vendas_sem_produto
              /\ tx'[t].ins = tx[t].ins /\ tx'[t].dec = tx[t].dec
              /\ tx'[t].criadas = tx[t].criadas
              /\ vendas' = vendas /\ produtos' = produtos /\ seq_venda' = seq_venda]_vars

\* After an imported row, a row with a blank order number whose SKU is a
\* product's was read and left everything as it was.
C13_Witness ==
    \E t \in DOMAIN tx :
        /\ tx[t].variante = "ml"
        /\ tx[t].pc = "linha"
        /\ tx[t].lidas = 2
        /\ tx[t].linha[1].numero = CelNaN
        /\ BuscarPorSku(TextoDaCelula(tx[t].linha[1].sku)) # {}
        /\ tx[t].vendas_importadas = 1
        /\ tx[t].vendas_sem_sku = 0 /\ tx[t].vendas_sem_produto = 0
        /\ Cardinality(tx[t].ins) = 1

\* The Quantidade cells the claim names: blank, unparseable, zero or negative
QuantidadeNaoPositiva(c) ==
    \/ c = CelNaN
    \/ QuantidadeIlegivel(c)
    \/ c.k = "num" /\ c.n <= 0
    \/ c.k = "str" /\ IntDeTexto(c.s).ok /\ IntDeTexto(c.s).v <= 0

\* C14: in the template import a row whose quantity is zero, negative, blank
\* or unparseable is skipped silently: the loop goes on with the three
\* counters, the pending sale records and the pending stock decrements as they
\* were and nothing committed, also when its SKU or title matches no product.
C14_QuantidadeNaoPositivaIgnorada ==
    [][\A t \in DOMAIN tx :
          (/\ LeuLinha(t)
           /\ tx[t].variante = "template"
           /\ QuantidadeNaoPositiva(tx'[t].linha[1].quantidade)) =>
              /\ tx'[t].pc = "linha"
              /\ tx'[t].vendas_importadas = tx[t].vendas_importadas
              /\ tx'[t].vendas_sem_sku = tx[t].vendas_sem_sku
              /\ tx'[t].vendas_sem_produto = tx[t].vendas_sem_produto
              /\ tx'[t].ins = tx[t].ins /\ tx'[t].dec = tx[t].dec
              /\ tx'[t].criadas = tx[t].criadas
              /\ vendas' = vendas /\ produtos' = produtos /\ seq_venda' = seq_venda]_vars

\* After an imported row, a row of quantity 0 whose SKU ("nan", from a blank
\* cell) and title match no product was read and counted nowhere.
C14_Witness ==
    \E t \in DOMAIN tx :
        /\ tx[t].variante = "template"
        /\ tx[t].pc = "linha"
        /\ tx[t].lidas = 2
        /\ tx[t].linha[1].quantidade = CelNum(0)
        /\ SemProdutoNoCatalogo(tx[t].linha[1])
        /\ TextoDaCelula(tx[t].linha[1].sku) # Vazio
        /\ tx[t].vendas_importadas = 1
        /\ tx[t].vendas_sem_sku = 0 /\ tx[t].vendas_sem_produto = 0
        /\ Cardinality(tx[t].ins) = 1

\* C15: parse_data_venda returns the date a text names when the text has
\* the form DD/MM/YYYY, YYYY-MM-DD or "<day> de <month> de <year> HH:MM", and
\* None for every other text.
C15_ParseDataVenda ==
    (chamada # <<>> /\ chamada[1].retorno # <<>>) =>
        chamada[1].retorno[1] = chamada[1].entrada.data

\* C16: a step that deletes the batch an invocation returned removes the
\* sale records that invocation created and no other sale record.
C16_LoteDeUmaInvocacao ==
    [][\A i \in 1..Len(hist) :
          (/\ hist[i].resultado = "resumo"
           /\ vendas' # vendas
           /\ vendas' = {v \in vendas : v.lote_importacao # Algum(hist[i].lote_id)}) =>
              vendas \ vendas' = {v \in vendas : v.id \in hist[i].criadas}]_vars

\* Both connections ran an importer, both committed, and each started before
\* the other committed: neither saw a sale record of the other when it started.
AmbasConcluiram ==
    /\ \A t \in DOMAIN tx : Sucesso(t)
    /\ \A t, u \in DOMAIN tx :
          t # u => \A v \in tx[t].antes[1].vendas : v.id \notin {c.id : c \in tx[u].criadas}

CriadasPorTodas(p) ==
    {v \in vendas : v.produto_id = p /\ \E t \in DOMAIN tx : v.id \in {c.id : c \in tx[t].criadas}}

\* Both batches created a sale record with a quantity for product p
DisputaPor(p) ==
    \A t \in DOMAIN tx : \E v \in CriadasPara(t, p) : v.quantidade # 0

\* C17 as stated, for the interleavings it is about: when two imports that
\* ran at the same time have both committed sale records for the same product,
\* the product's estoque_atual differs from its initial value minus the sum of
\* the quantities of the records both created for it.
C17_AtualizacaoPerdida ==
    AmbasConcluiram =>
        \A p \in DOMAIN produtos :
            DisputaPor(p) =>
                produtos[p].estoque_atual #
                    Catalogo[p].estoque_atual - SomaQuantidade(CriadasPorTodas(p))

\* C17, amended: no interleaving of two concurrent imports loses an update;
\* whenever both have committed, every product's estoque_atual is its initial
\* value minus the sum of the quantities of the sale records both created
\* for it.
C17_SemAtualizacaoPerdida ==
    (\A t \in DOMAIN tx : Sucesso(t)) =>
        \A p \in DOMAIN produtos :
            produtos[p].estoque_atual =
                Catalogo[p].estoque_atual - SomaQuantidade(CriadasPorTodas(p))

\* Two imports that ran at the same time both committed a sale of product 2.
C17_Witness ==
    /\ Cardinality(DOMAIN tx) = 2
    /\ AmbasConcluiram
    /\ DisputaPor(2)
    /\ produtos[2].estoque_atual = Catalogo[2].estoque_atual - SomaQuantidade(CriadasPorTodas(2))
    /\ Cardinality(CriadasPorTodas(2)) >= 2

\* C18: from the start of an import invocation on, the catalog has the same
\* products with the same nome, sku, custo_unitario and estoque_inicial, a
\* product for which the invocation committed no sale record has the same
\* estoque_atual, and every sale record that existed before is still there,
\* unmodified.
C18_ImportacaoSoMexeNoEstoque ==
    \A t \in DOMAIN tx :
        tx[t].antes # <<>> =>
            LET antes == tx[t].antes[1]
            IN  /\ DOMAIN produtos = DOMAIN antes.produtos
                /\ \A p \in DOMAIN produtos :
                      /\ produtos[p].nome = antes.produtos[p].nome
                      /\ produtos[p].sku = antes.produtos[p].sku
                      /\ produtos[p].custo_unitario = antes.produtos[p].custo_unitario
                      /\ produtos[p].estoque_inicial = antes.produtos[p].estoque_inicial
                      /\ CriadasPara(t, p) = {} =>
                            produtos[p].estoque_atual = antes.produtos[p].estoque_atual
                /\ antes.vendas \subseteq vendas
                /\ \A v \in vendas : v \notin antes.vendas => v.id \in {c.id : c \in tx[t].criadas}

\* A committed import that matched product 2 only: product 1 and the earlier
\* manual sale are as they were.
C18_Witness ==
    \E t \in DOMAIN tx :
        /\ Sucesso(t)
        /\ CriadasPara(t, 1) = {}
        /\ SomaQuantidade(CriadasPara(t, 2)) > 0
        /\ produtos[2].estoque_atual < tx[t].antes[1].produtos[2].estoque_atual
        /\ produtos[1] = tx[t].antes[1].produtos[1]
        /\ VendaManualInicial \in vendas

====
